---- MODULE Spec2Model ----
(***************************************************************************)
(* A model of src/ass/document.py: the case-insensitive ordered map, the   *)
(* duration codec, the record-line parser, the override-tag scanner and    *)
(* the Document parse/dump pair.                                           *)
(*                                                                         *)
(* Text is modelled as a sequence of one-character strings, so that        *)
(* strip, partition, split, lower and the number formats are computed the  *)
(* way Python computes them.                                               *)
(***************************************************************************)
EXTENDS Integers, Sequences, FiniteSets, TLC

VARIABLES
    \* CaseInsensitiveOrderedDict under test
    cimap,      \* [dict: OrderedDict as a sequence of <<key, value>>, case_mapping: function]
    mapHist,    \* history of the set/delete calls made so far
    mapRet,     \* outcome of the last call
    \* duration codec
    td,         \* the time span, in centiseconds
    tdText,     \* timedelta_to_ass(td)
    tdBack,     \* timedelta_from_ass(tdText)
    tdPc,
    \* _Line.parse
    lnOrder,    \* the field order
    lnText,     \* the text after the kind
    lnRes,      \* the outcome of _Line.parse
    lnPc,
    \* Dialogue.parse_parts
    scText,     \* the dialogue text
    scRes,      \* the outcome of parse_parts
    scPc,
    \* Tag.strip_tags
    stParts,    \* the segments
    stKeep,     \* keep_drawing_commands
    stRes,      \* the outcome of strip_tags
    stPc,
    \* Document.parse_file and dump_file
    ps,         \* the state of parse_file, then the Document it returned
    input,      \* the lines read so far
    pc,         \* "parsing", "failed", "done", "dumped", "reparsed"
    curHeader,  \* the lowercased name of the last header read, None before it
    accepted,   \* the records add_line appended: <<lowercased header, record>>
    lastCall,   \* the last add_line call of a record section
    out,        \* the outcome of dump_file
    back        \* parse_file of the lines dump_file wrote

mapVars == <<cimap, mapHist, mapRet>>
timeVars == <<td, tdText, tdBack, tdPc>>
lineVars == <<lnOrder, lnText, lnRes, lnPc>>
scanVars == <<scText, scRes, scPc>>
stripVars == <<stParts, stKeep, stRes, stPc>>
docVars == <<ps, input, pc, curHeader, accepted, lastCall, out, back>>
vars == <<cimap, mapHist, mapRet, td, tdText, tdBack, tdPc, lnOrder, lnText, lnRes, lnPc,
          scText, scRes, scPc, stParts, stKeep, stRes, stPc,
          ps, input, pc, curHeader, accepted, lastCall, out, back>>

\* The value None where a text or a list may stand, and the marker of a variable that a specification leaves idle.
None == <<"None">>
\* No exception raised
NoError == "none"
Idle == "idle"

-----------------------------------------------------------------------------
(* Text helpers *)

UpperLetters == <<"A","B","C","D","E","F","G","H","I","J","K","L","M",
                  "N","O","P","Q","R","S","T","U","V","W","X","Y","Z">>
LowerLetters == <<"a","b","c","d","e","f","g","h","i","j","k","l","m",
                  "n","o","p","q","r","s","t","u","v","w","x","y","z">>

\* str.lower() on one character
LowerChr(c) ==
    IF \E i \in 1..26 : UpperLetters[i] = c
    THEN LowerLetters[CHOOSE i \in 1..26 : UpperLetters[i] = c]
    ELSE c

\* str.lower()
Lower(s) == [i \in 1..Len(s) |-> LowerChr(s[i])]

\* Outcomes of an operation that may raise
Ok(v) == [ok |-> TRUE, v |-> v]
Err(e) == [ok |-> FALSE, err |-> e]

\* The rest of a computation after a step that may have raised: F of the
\* step's value, or the step's exception
Bind(r, F(_)) == IF r.ok THEN F(r.v) ELSE r

DigitChars == <<"0","1","2","3","4","5","6","7","8","9">>
IsDigit(c) == \E i \in 1..10 : DigitChars[i] = c
DigitVal(c) == (CHOOSE i \in 1..10 : DigitChars[i] = c) - 1

IsSpace(c) == c = " "

\* str.lstrip(), str.rstrip(), str.strip()
RECURSIVE LStrip(_)
LStrip(s) == IF s # <<>> /\ IsSpace(s[1]) THEN LStrip(Tail(s)) ELSE s
RECURSIVE RStrip(_)
RStrip(s) == IF s # <<>> /\ IsSpace(s[Len(s)]) THEN RStrip(SubSeq(s, 1, Len(s) - 1)) ELSE s
Strip(s) == RStrip(LStrip(s))

\* The index of the first occurrence of character c in s, 0 when there is none
FirstIndex(s, c) ==
    IF \E i \in 1..Len(s) : s[i] = c
    THEN CHOOSE i \in 1..Len(s) : s[i] = c /\ \A j \in 1..(i - 1) : s[j] # c
    ELSE 0

PartitionAt(s, c, i) ==
    IF i = 0 THEN <<s, <<>>, <<>>>>
    ELSE <<SubSeq(s, 1, i - 1), <<c>>, SubSeq(s, i + 1, Len(s))>>

\* str.partition(c): <<head, separator, tail>>
Partition(s, c) == PartitionAt(s, c, FirstIndex(s, c))

\* str.split(c, maxsplit): at most maxsplit cuts, from the left; maxsplit < 0
\* cuts at every c
RECURSIVE SplitAt(_, _, _, _)
SplitAt(s, c, maxsplit, i) ==
    IF i = 0 \/ maxsplit = 0 THEN <<s>>
    ELSE <<SubSeq(s, 1, i - 1)>>
         \o SplitAt(SubSeq(s, i + 1, Len(s)), c, maxsplit - 1,
                    FirstIndex(SubSeq(s, i + 1, Len(s)), c))

Split(s, c, maxsplit) == SplitAt(s, c, maxsplit, FirstIndex(s, c))

\* c.join(parts)
RECURSIVE Join(_, _)
Join(parts, sep) ==
    IF parts = <<>> THEN <<>>
    ELSE IF Len(parts) = 1 THEN parts[1]
    ELSE parts[1] \o sep \o Join(Tail(parts), sep)

\* The decimal digits of n >= 0
RECURSIVE Digits(_)
Digits(n) == IF n < 10 THEN <<DigitChars[n + 1]>> ELSE Digits(n \div 10) \o <<DigitChars[(n % 10) + 1]>>

\* str(n) for an integer n, also "{:.0f}".format(n)
IntToStr(n) == IF n < 0 THEN <<"-">> \o Digits(-n) ELSE Digits(n)

\* "{:02}".format(n) and "{:02.0f}".format(n) for n >= 0: zero-padded to width 2
Pad2(n) == IF n < 10 THEN <<"0">> \o Digits(n) ELSE Digits(n)

RECURSIVE DigitsVal(_)
DigitsVal(s) == IF s = <<>> THEN 0 ELSE DigitsVal(SubSeq(s, 1, Len(s) - 1)) * 10 + DigitVal(s[Len(s)])

\* int(text) once the surrounding whitespace is gone: one sign is accepted,
\* then digits
IntParseStripped(t) ==
    LET signed == IF t = <<>> THEN FALSE ELSE t[1] \in {"-", "+"}
        body == IF signed THEN Tail(t) ELSE t
    IN  IF body = <<>> THEN Err("ValueError")
        ELSE IF \E i \in 1..Len(body) : ~IsDigit(body[i]) THEN Err("ValueError")
        ELSE Ok(IF signed /\ t[1] = "-" THEN -DigitsVal(body) ELSE DigitsVal(body))

\* int(text)
IntParse(text) == IntParseStripped(Strip(text))

\* int(x) of Python: truncation toward zero of x = num / den, den > 0
TruncDiv(num, den) == IF num >= 0 THEN num \div den ELSE -((-num) \div den)

-----------------------------------------------------------------------------
(* collections.OrderedDict, as a sequence of <<key, value>> pairs *)

ODHas(od, k) == \E i \in 1..Len(od) : od[i][1] = k

ODIndex(od, k) == CHOOSE i \in 1..Len(od) : od[i][1] = k

ODGet(od, k) == od[ODIndex(od, k)][2]

\* od[k] = v: an existing key keeps its position, a new key goes last
ODSet(od, k, v) ==
    IF ODHas(od, k)
    THEN [od EXCEPT ![ODIndex(od, k)] = <<k, v>>]
    ELSE Append(od, <<k, v>>)

\* del od[k]
ODDel(od, k) ==
    LET i == ODIndex(od, k)
    IN  SubSeq(od, 1, i - 1) \o SubSeq(od, i + 1, Len(od))

ODKeys(od) == [i \in 1..Len(od) |-> od[i][1]]

ODValues(od) == [i \in 1..Len(od) |-> od[i][2]]

-----------------------------------------------------------------------------
(* CaseInsensitiveOrderedDict *)

CIEmpty == [dict |-> <<>>, case_mapping |-> <<>>]

\* __getitem__ raises KeyError unless the lowered key is indexed and the
\* indexed key is stored
CIHas(d, key) ==
    /\ Lower(key) \in DOMAIN d.case_mapping
    /\ ODHas(d.dict, d.case_mapping[Lower(key)])

CIGetItem(d, key) == ODGet(d.dict, d.case_mapping[Lower(key)])

\* A __setitem__ that re-indexes the key under the casing given last.
CISetItemLastCasing(d, key, value) ==
    LET cm == [l \in DOMAIN d.case_mapping \cup {Lower(key)} |->
                  IF l = Lower(key) THEN key ELSE d.case_mapping[l]]
    IN  [dict |-> ODSet(d.dict, key, value), case_mapping |-> cm]

\* __setitem__
CISetItem(d, key, value) ==
    LET cm == IF Lower(key) \notin DOMAIN d.case_mapping
              THEN d.case_mapping @@ (Lower(key) :> key)
              ELSE d.case_mapping
    IN  [dict |-> ODSet(d.dict, cm[Lower(key)], value), case_mapping |-> cm]

\* __delitem__ (the caller has checked CIHas; otherwise KeyError)
CIDelItem(d, key) ==
    [dict |-> ODDel(d.dict, d.case_mapping[Lower(key)]),
     case_mapping |-> [l \in DOMAIN d.case_mapping \ {Lower(key)} |-> d.case_mapping[l]]]

\* __iter__
CIKeys(d) == ODKeys(d.dict)

\* values(), in iteration order
CIValues(d) == [i \in 1..Len(d.dict) |-> CIGetItem(d, d.dict[i][1])]

\* __contains__ (Mapping.__contains__: try self[key])
CIContains(d, key) == CIHas(d, key)

\* Mapping.get
CIGetOr(d, key, default) == IF CIHas(d, key) THEN CIGetItem(d, key) ELSE default

-----------------------------------------------------------------------------
(* _Field: the duration codec.  A timedelta is held as its number of      *)
(* centiseconds: every span the codec reads is a whole number of them.    *)

\* _Field.timedelta_to_ass.  total_seconds() is cs / 100, int() truncates it
\* toward zero, divmod floors, and td.microseconds // 10000 is the
\* non-negative remainder cs mod 100 of the normalised timedelta.
timedelta_to_ass(cs) ==
    LET r0 == TruncDiv(cs, 100)
        r == r0 \div 60
        secs == r0 % 60
        hours == r \div 60
        mins == r % 60
        csecs == cs % 100
    IN  IntToStr(hours) \o <<":">> \o Pad2(mins) \o <<":">> \o Pad2(secs)
        \o <<".">> \o Pad2(csecs)

\* The sum of timedelta_from_ass, in centiseconds.  The float sum is exact to
\* the microsecond for the spans of this model.
TimedeltaSum(h, m, sc, c) ==
    IF h.ok /\ m.ok /\ sc.ok /\ c.ok
    THEN Ok((h.v * 60 * 60 + m.v * 60 + sc.v) * 100 + c.v)
    ELSE Err("ValueError")

\* hours, mins, secs = map(int, secs_str.split(":")) and int(csecs)
TimedeltaOfParts(parts, csecs) ==
    IF Len(parts) # 3 THEN Err("ValueError")
    ELSE TimedeltaSum(IntParse(parts[1]), IntParse(parts[2]), IntParse(parts[3]),
                      IntParse(csecs))

TimedeltaOfPartition(p) == TimedeltaOfParts(Split(p[1], ":", -1), p[3])

\* _Field.timedelta_from_ass
timedelta_from_ass(v) == TimedeltaOfPartition(Partition(v, "."))

-----------------------------------------------------------------------------
(* Field values.  Every value is a record of the same shape: its Python    *)
(* type t, its text s (a str) and its number n (an int, a bool as 0 or 1,  *)
(* a timedelta in centiseconds, a float that is a whole number, a Color as *)
(* the integer 0xAABBGGRR).                                                *)

StrV(s) == [t |-> "str", s |-> s, n |-> 0]
IntV(n) == [t |-> "int", s |-> <<>>, n |-> n]
BoolV(b) == [t |-> "bool", s |-> <<>>, n |-> IF b THEN 1 ELSE 0]
TdV(cs) == [t |-> "timedelta", s |-> <<>>, n |-> cs]
FloatV(n) == [t |-> "float", s |-> <<>>, n |-> n]
ColorV(r, g, b, a) == [t |-> "Color", s |-> <<>>, n |-> ((a * 256 + b) * 256 + g) * 256 + r]

HexChars == <<"0","1","2","3","4","5","6","7","8","9","A","B","C","D","E","F">>
IsHex(c) == \E i \in 1..16 : LowerChr(HexChars[i]) = LowerChr(c)
HexVal(c) == (CHOOSE i \in 1..16 : LowerChr(HexChars[i]) = LowerChr(c)) - 1

\* "{:02X}".format(n) for 0 <= n <= 255
Hex2(n) == <<HexChars[(n \div 16) + 1], HexChars[(n % 16) + 1]>>

RECURSIVE HexDigitsVal(_)
HexDigitsVal(s) ==
    IF s = <<>> THEN 0 ELSE HexDigitsVal(SubSeq(s, 1, Len(s) - 1)) * 16 + HexVal(s[Len(s)])

\* Color.to_ass: "&H" and the bytes alpha, blue, green, red
ColorToAss(v) ==
    <<"&", "H">> \o Hex2((v.n \div 16777216) % 256) \o Hex2((v.n \div 65536) % 256)
                 \o Hex2((v.n \div 256) % 256) \o Hex2(v.n % 256)

\* Color.from_ass: the text after "&H" read as hexadecimal, each channel one
\* byte of it (the texts of this model carry no sign, prefix or underscore)
ColorFromAss(text) ==
    LET body == SubSeq(text, 3, Len(text))
    IN  IF Len(text) < 2 \/ text[1] # "&" \/ text[2] # "H" THEN Err("ValueError")
        ELSE IF body = <<>> \/ \E i \in 1..Len(body) : ~IsHex(body[i]) THEN Err("ValueError")
        ELSE LET rest == HexDigitsVal(body)
             IN  Ok(ColorV(rest % 256, (rest \div 256) % 256,
                           (rest \div 65536) % 256, (rest \div 16777216) % 256))

FloatOfInt(r) ==
    IF ~r.ok THEN Err("FloatOutsideModel")
    ELSE IF r.v > -1000000 /\ r.v < 1000000 THEN Ok(FloatV(r.v))
    ELSE Err("FloatOutsideModel")

\* float(text) for the whole-number literals of up to six digits, which
\* "{:g}" prints back as the integer; any other text is outside this model
FloatParse(text) == FloatOfInt(IntParse(text))

\* _Field.parse, by the declared type
FieldParse(type, text) ==
    CASE type = "str" -> Ok(StrV(text))
      [] type = "int" -> Bind(IntParse(text), LAMBDA n : Ok(IntV(n)))
      [] type = "bool" -> Bind(IntParse(text), LAMBDA n : Ok(BoolV(-n # 0)))
      [] type = "timedelta" -> Bind(timedelta_from_ass(text), LAMBDA cs : Ok(TdV(cs)))
      [] type = "float" -> FloatParse(text)
      [] type = "Color" -> ColorFromAss(text)

\* _Field.dump, by the type of the value
FieldDump(v) ==
    CASE v.t = "None" -> <<>>
      [] v.t = "bool" -> IntToStr(-v.n)
      [] v.t = "timedelta" -> timedelta_to_ass(v.n)
      [] v.t = "float" -> IntToStr(v.n)
      [] v.t = "Color" -> ColorToAss(v)
      [] v.t = "int" -> IntToStr(v.n)
      [] v.t = "str" -> v.s

-----------------------------------------------------------------------------
(* Record types: _Line and its subclasses *)

\* One _Field of a class body: the attribute it is bound to, its name, its
\* type and its default
FieldDef(attr, name, type, default) ==
    [attr |-> attr, name |-> name, type |-> type, default |-> default]

UnknownFieldDefs ==
    <<
       FieldDef(<<"v","a","l","u","e">>, <<"V","a","l","u","e">>, "str", StrV(<<>>))
    >>

StyleFieldDefs ==
    <<
       FieldDef(<<"n","a","m","e">>, <<"N","a","m","e">>, "str", StrV(<<"D","e","f","a","u","l","t">>)),
       FieldDef(<<"f","o","n","t","n","a","m","e">>, <<"F","o","n","t","n","a","m","e">>, "str", StrV(<<"A","r","i","a","l">>)),
       FieldDef(<<"f","o","n","t","s","i","z","e">>, <<"F","o","n","t","s","i","z","e">>, "float", IntV(20)),
       FieldDef(<<"p","r","i","m","a","r","y","_","c","o","l","o","r">>, <<"P","r","i","m","a","r","y","C","o","l","o","u","r">>, "Color", ColorV(255, 255, 255, 0)),
       FieldDef(<<"s","e","c","o","n","d","a","r","y","_","c","o","l","o","r">>, <<"S","e","c","o","n","d","a","r","y","C","o","l","o","u","r">>, "Color", ColorV(255, 0, 0, 0)),
       FieldDef(<<"o","u","t","l","i","n","e","_","c","o","l","o","r">>, <<"O","u","t","l","i","n","e","C","o","l","o","u","r">>, "Color", ColorV(0, 0, 0, 0)),
       FieldDef(<<"b","a","c","k","_","c","o","l","o","r">>, <<"B","a","c","k","C","o","l","o","u","r">>, "Color", ColorV(0, 0, 0, 0)),
       FieldDef(<<"b","o","l","d">>, <<"B","o","l","d">>, "bool", BoolV(FALSE)),
       FieldDef(<<"i","t","a","l","i","c">>, <<"I","t","a","l","i","c">>, "bool", BoolV(FALSE)),
       FieldDef(<<"u","n","d","e","r","l","i","n","e">>, <<"U","n","d","e","r","l","i","n","e">>, "bool", BoolV(FALSE)),
       FieldDef(<<"s","t","r","i","k","e","_","o","u","t">>, <<"S","t","r","i","k","e","O","u","t">>, "bool", BoolV(FALSE)),
       FieldDef(<<"s","c","a","l","e","_","x">>, <<"S","c","a","l","e","X">>, "float", IntV(100)),
       FieldDef(<<"s","c","a","l","e","_","y">>, <<"S","c","a","l","e","Y">>, "float", IntV(100)),
       FieldDef(<<"s","p","a","c","i","n","g">>, <<"S","p","a","c","i","n","g">>, "float", IntV(0)),
       FieldDef(<<"a","n","g","l","e">>, <<"A","n","g","l","e">>, "float", IntV(0)),
       FieldDef(<<"b","o","r","d","e","r","_","s","t","y","l","e">>, <<"B","o","r","d","e","r","S","t","y","l","e">>, "int", IntV(1)),
       FieldDef(<<"o","u","t","l","i","n","e">>, <<"O","u","t","l","i","n","e">>, "float", IntV(2)),
       FieldDef(<<"s","h","a","d","o","w">>, <<"S","h","a","d","o","w">>, "float", IntV(2)),
       FieldDef(<<"a","l","i","g","n","m","e","n","t">>, <<"A","l","i","g","n","m","e","n","t">>, "int", IntV(2)),
       FieldDef(<<"m","a","r","g","i","n","_","l">>, <<"M","a","r","g","i","n","L">>, "int", IntV(10)),
       FieldDef(<<"m","a","r","g","i","n","_","r">>, <<"M","a","r","g","i","n","R">>, "int", IntV(10)),
       FieldDef(<<"m","a","r","g","i","n","_","v">>, <<"M","a","r","g","i","n","V">>, "int", IntV(10)),
       FieldDef(<<"e","n","c","o","d","i","n","g">>, <<"E","n","c","o","d","i","n","g">>, "int", IntV(1))
    >>

EventFieldDefs ==
    <<
       FieldDef(<<"l","a","y","e","r">>, <<"L","a","y","e","r">>, "int", IntV(0)),
       FieldDef(<<"s","t","a","r","t">>, <<"S","t","a","r","t">>, "timedelta", TdV(0)),
       FieldDef(<<"e","n","d">>, <<"E","n","d">>, "timedelta", TdV(0)),
       FieldDef(<<"s","t","y","l","e">>, <<"S","t","y","l","e">>, "str", StrV(<<"D","e","f","a","u","l","t">>)),
       FieldDef(<<"n","a","m","e">>, <<"N","a","m","e">>, "str", StrV(<<>>)),
       FieldDef(<<"m","a","r","g","i","n","_","l">>, <<"M","a","r","g","i","n","L">>, "int", IntV(0)),
       FieldDef(<<"m","a","r","g","i","n","_","r">>, <<"M","a","r","g","i","n","R">>, "int", IntV(0)),
       FieldDef(<<"m","a","r","g","i","n","_","v">>, <<"M","a","r","g","i","n","V">>, "int", IntV(0)),
       FieldDef(<<"e","f","f","e","c","t">>, <<"E","f","f","e","c","t">>, "str", StrV(<<>>)),
       FieldDef(<<"t","e","x","t">>, <<"T","e","x","t">>, "str", StrV(<<>>))
    >>

EventClasses == {"Dialogue", "Comment", "Picture", "Sound", "Movie", "Command"}

\* cls._field_defs, as _WithFieldMeta builds it
FieldDefs(cls) ==
    CASE cls = "Unknown" -> UnknownFieldDefs
      [] cls = "Style" -> StyleFieldDefs
      [] cls \in EventClasses -> EventFieldDefs

NamesOf(defs) == [i \in 1..Len(defs) |-> defs[i].name]

\* cls.DEFAULT_FIELD_ORDER
DefaultFieldOrder(cls) == NamesOf(FieldDefs(cls))

\* cls.TYPE
ClassType(cls) ==
    CASE cls = "Unknown" -> None
      [] cls = "Style" -> <<"S","t","y","l","e">>
      [] cls = "Dialogue" -> <<"D","i","a","l","o","g","u","e">>
      [] cls = "Comment" -> <<"C","o","m","m","e","n","t">>
      [] cls = "Picture" -> <<"P","i","c","t","u","r","e">>
      [] cls = "Sound" -> <<"S","o","u","n","d">>
      [] cls = "Movie" -> <<"M","o","v","i","e">>
      [] cls = "Command" -> <<"C","o","m","m","a","n","d">>

HasName(defs, name) == \E i \in 1..Len(defs) : defs[i].name = name
DefNamed(defs, name) == defs[CHOOSE i \in 1..Len(defs) : defs[i].name = name]
HasAttrDef(defs, k) == \E i \in 1..Len(defs) : defs[i].attr = k
DefOfAttr(defs, k) == defs[CHOOSE i \in 1..Len(defs) : defs[i].attr = k]

\* name in cls._field_mappings
IsDeclared(cls, name) == HasName(FieldDefs(cls), name)

\* cls._field_mappings[name]
DeclaredDef(cls, name) == DefNamed(FieldDefs(cls), name)

\* hasattr(self, k) names a _Field descriptor of the class
IsFieldAttr(cls, k) == HasAttrDef(FieldDefs(cls), k)

AttrDef(cls, k) == DefOfAttr(FieldDefs(cls), k)

TypeAttr == <<"T","Y","P","E">>

\* _Line.__init__ from keyword arguments, given as <<name, value>> pairs in
\* call order.  A keyword that names an attribute of the instance is set
\* through setattr: a _Field descriptor stores it under the descriptor's own
\* name, TYPE becomes an instance attribute.  (The other attributes, fields
\* and the methods, are not among the names of this model.)
RECURSIVE ApplyKwargs(_, _, _)
ApplyKwargs(cls, rec, kwargs) ==
    IF kwargs = <<>> THEN rec
    ELSE LET k == kwargs[1][1]
             v == kwargs[1][2]
             next ==
                 IF IsFieldAttr(cls, k)
                 THEN [rec EXCEPT !.fields = ODSet(rec.fields, AttrDef(cls, k).name, v)]
                 ELSE IF k = TypeAttr
                 THEN [rec EXCEPT !.TYPE = v.s]
                 ELSE [rec EXCEPT !.fields = ODSet(rec.fields, k, v)]
         IN  ApplyKwargs(cls, next, Tail(kwargs))

\* self.fields = {f.name: f.default for f in self._field_defs}
DefaultFields(defs) == [i \in 1..Len(defs) |-> <<defs[i].name, defs[i].default>>]

\* if self.TYPE is None: self.TYPE = type_name
SetTypeName(rec, type_name) ==
    IF rec.TYPE = None THEN [rec EXCEPT !.TYPE = type_name] ELSE rec

\* _Line.__init__
LineInit(cls, kwargs, type_name) ==
    SetTypeName(ApplyKwargs(cls,
                            [cls |-> cls, TYPE |-> ClassType(cls),
                             fields |-> DefaultFields(FieldDefs(cls))],
                            kwargs),
                type_name)

\* The split of _Line.parse without a limit on the number of cuts.
LineSplitEveryComma(line, field_order) == Split(line, ",", -1)

\* The split of _Line.parse: at most len(field_order) - 1 cuts
LineSplit(line, field_order) == Split(line, ",", Len(field_order) - 1)

\* One part of _Line.parse, decoded when the class declares its field
DecodePart(cls, name, part) ==
    IF IsDeclared(cls, name)
    THEN FieldParse(DeclaredDef(cls, name).type, part)
    ELSE Ok(StrV(part))

\* The loop of _Line.parse that decodes the parts into the dict `fields`
RECURSIVE DecodeParts(_, _, _, _)
DecodeParts(cls, field_order, parts, fields) ==
    IF field_order = <<>> THEN Ok(fields)
    ELSE Bind(DecodePart(cls, field_order[1], parts[1]),
              LAMBDA v : DecodeParts(cls, Tail(field_order), Tail(parts),
                                     ODSet(fields, field_order[1], v)))

\* _Line.parse from the check of the arity on
LineParseParts(cls, type_name, order, parts) ==
    IF Len(parts) # Len(order) THEN Err("ArityMismatch")
    ELSE Bind(DecodeParts(cls, order, parts, <<>>),
              LAMBDA fields : Ok(LineInit(cls, fields, type_name)))

LineParseOrdered(cls, type_name, line, order) ==
    LineParseParts(cls, type_name, order, LineSplit(line, order))

\* _Line.parse; field_order is None or a sequence of names
LineParse(cls, type_name, line, field_order) ==
    LineParseOrdered(cls, type_name, line,
                     IF field_order = None THEN DefaultFieldOrder(cls) ELSE field_order)

\* _Line.dump: self.fields[field] raises KeyError for a name it does not hold
RECURSIVE DumpFields(_, _)
DumpFields(rec, order) ==
    IF order = <<>> THEN Ok(<<>>)
    ELSE IF ~ODHas(rec.fields, order[1]) THEN Err("KeyError")
    ELSE Bind(DumpFields(rec, Tail(order)),
              LAMBDA rest : Ok(<<FieldDump(ODGet(rec.fields, order[1]))>> \o rest))

LineDump(rec, field_order) ==
    Bind(DumpFields(rec, IF field_order = None THEN DefaultFieldOrder(rec.cls)
                         ELSE field_order),
         LAMBDA texts : Ok(Join(texts, <<",">>)))

\* _Line.dump_with_type
LineDumpWithType(rec, field_order) ==
    Bind(LineDump(rec, field_order), LAMBDA body : Ok(rec.TYPE \o <<":", " ">> \o body))

-----------------------------------------------------------------------------
(* Override tags.  A segment is a plain text or a Tag object; both are     *)
(* records of one shape, a Tag holding its instance attributes in attrs.   *)

PlainPart(text) == [kind |-> "str", s |-> text, attrs |-> <<>>]

\* Tag.__init__: the attributes the constructor sets
TagInit(name, params) ==
    [kind |-> "Tag", s |-> <<>>, attrs |-> [name |-> name, param |-> params]]

\* obj.attr on a Tag: the class defines no data attribute, so a name the
\* constructor did not set raises AttributeError
GetAttr(obj, attr) ==
    IF attr \in DOMAIN obj.attrs THEN Ok(obj.attrs[attr]) ELSE Err("AttributeError")

\* Tag.from_ass
TagFromAss(text) == Err("NotImplementedError")

\* The index of the first "}" of text after position i, Len(text) + 1 without one
TagEnd(text, i) ==
    IF \E j \in (i + 1)..Len(text) : text[j] = "}"
    THEN CHOOSE j \in (i + 1)..Len(text) :
             text[j] = "}" /\ \A k \in (i + 1)..(j - 1) : text[k] # "}"
    ELSE Len(text) + 1

\* The loop of Dialogue.parse_parts from character i on, and what follows it
RECURSIVE ScanParts(_, _, _, _, _)
ScanParts(text, i, parts, current, backslash) ==
    IF i > Len(text)
    THEN LET cur == IF backslash THEN Append(current, "\\") ELSE current
         IN  Ok(IF cur # <<>> THEN Append(parts, PlainPart(cur)) ELSE parts)
    ELSE LET c == text[i]
         IN  IF backslash
             THEN ScanParts(text, i + 1, parts,
                            IF c = "{" THEN Append(current, c) ELSE current \o <<"\\", c>>,
                            FALSE)
             ELSE IF c = "{"
             THEN LET flushed == IF current # <<>> THEN Append(parts, PlainPart(current)) ELSE parts
                      j == TagEnd(text, i)
                      tag == TagFromAss(SubSeq(text, i + 1, j - 1))
                  IN  IF ~tag.ok THEN tag
                      ELSE ScanParts(text, j + 1, Append(flushed, tag.v), <<>>, FALSE)
             ELSE IF c = "\\"
             THEN ScanParts(text, i + 1, parts, current, TRUE)
             ELSE ScanParts(text, i + 1, parts, Append(current, c), FALSE)

\* Dialogue.parse_parts
ParseParts(text) == ScanParts(text, 1, <<>>, <<>>, FALSE)

\* The inner loop of Tag.strip_tags: the index after the next \p0 tag, or an error
RECURSIVE SkipDrawing(_, _)
SkipDrawing(parts, i) ==
    IF i > Len(parts) THEN Ok(i)
    ELSE IF parts[i].kind = "Tag" /\ GetAttr(parts[i], "name").v = <<"p">>
    THEN Bind(GetAttr(parts[i], "params"),
              LAMBDA params : IF params = <<0>> THEN Ok(i + 1) ELSE SkipDrawing(parts, i + 1))
    ELSE SkipDrawing(parts, i + 1)

\* The outer loop of Tag.strip_tags from segment i on
RECURSIVE StripFrom(_, _, _, _)
StripFrom(parts, keep, i, text_parts) ==
    IF i > Len(parts) THEN Ok(text_parts)
    ELSE IF parts[i].kind = "Tag"
    THEN IF ~keep /\ GetAttr(parts[i], "name").v = <<"p">>
         THEN Bind(GetAttr(parts[i], "params"),
                   LAMBDA params :
                       IF params = <<1>>
                       THEN Bind(SkipDrawing(parts, i + 1),
                                 LAMBDA next : StripFrom(parts, keep, next, text_parts))
                       ELSE StripFrom(parts, keep, i + 1, text_parts))
         ELSE StripFrom(parts, keep, i + 1, text_parts)
    ELSE StripFrom(parts, keep, i + 1, Append(text_parts, parts[i].s))

\* Tag.strip_tags
StripTags(parts, keep) ==
    Bind(StripFrom(parts, keep, 1, <<>>), LAMBDA text_parts : Ok(Join(text_parts, <<>>)))

-----------------------------------------------------------------------------
(* Sections.  A section object is a record of one shape: its class, the    *)
(* header it was constructed with, its field order, its records (a         *)
(* LineSection) and its fields (a FieldSection).                           *)

FORMAT_TYPE == <<"F","o","r","m","a","t">>

SCRIPT_INFO_HEADER == <<"S","c","r","i","p","t"," ","I","n","f","o">>
STYLE_SSA_HEADER == <<"V","4"," ","S","t","y","l","e","s">>
STYLE_ASS_HEADER == <<"V","4","+"," ","S","t","y","l","e","s">>
EVENTS_HEADER == <<"E","v","e","n","t","s">>

\* cls.line_parsers: None, or the <<lowercased kind, record class>> pairs
LineParsers(cls) ==
    CASE cls = "EventsSection" ->
            << <<<<"d","i","a","l","o","g","u","e">>, "Dialogue">>, <<<<"c","o","m","m","e","n","t">>, "Comment">>, <<<<"p","i","c","t","u","r","e">>, "Picture">>,
               <<<<"s","o","u","n","d">>, "Sound">>, <<<<"m","o","v","i","e">>, "Movie">>, <<<<"c","o","m","m","a","n","d">>, "Command">> >>
      [] cls = "StylesSection" -> << <<<<"s","t","y","l","e">>, "Style">> >>
      [] OTHER -> None

\* cls.field_order of the section class
ClassFieldOrder(cls) ==
    CASE cls = "EventsSection" -> DefaultFieldOrder("Dialogue")
      [] cls = "StylesSection" -> DefaultFieldOrder("Style")
      [] OTHER -> None

\* ScriptInfoSection.FIELDS: <<name, type>>
ScriptInfoFields ==
    << <<<<"S","c","r","i","p","t","T","y","p","e">>, "str">>, <<<<"P","l","a","y","R","e","s","X">>, "int">>, <<<<"P","l","a","y","R","e","s","Y">>, "int">>,
       <<<<"W","r","a","p","S","t","y","l","e">>, "int">>, <<<<"S","c","a","l","e","d","B","o","r","d","e","r","A","n","d","S","h","a","d","o","w">>, "str">> >>

IsFieldSection(cls) == cls = "ScriptInfoSection"

\* LineSection.__init__ and FieldSection.__init__
NewSection(cls, name) ==
    [cls |-> cls, section |-> name, field_order |-> ClassFieldOrder(cls),
     lines |-> <<>>, fields |-> <<>>]

\* A rejection test that looks the kind up as written, not lowercased.
KindRejectedCaseSensitive(sec, type_name) ==
    /\ LineParsers(sec.cls) # None
    /\ ~ODHas(LineParsers(sec.cls), type_name)

\* The test of LineSection.add_line that rejects a kind
KindRejected(sec, type_name) ==
    /\ LineParsers(sec.cls) # None
    /\ ~ODHas(LineParsers(sec.cls), Lower(type_name))

\* self.field_order = [field.strip() for field in line.split(",")]
FormatNames(names) == [i \in 1..Len(names) |-> Strip(names[i])]

\* self.line_parsers[type_name.lower()] if self.line_parsers is not None else Unknown
LineParser(sec, type_name) ==
    IF LineParsers(sec.cls) # None
    THEN ODGet(LineParsers(sec.cls), Lower(type_name))
    ELSE "Unknown"

\* LineSection.add_line
LineSectionAddLine(sec, type_name, line) ==
    IF Lower(type_name) = Lower(FORMAT_TYPE)
    THEN Ok([sec EXCEPT !.field_order = FormatNames(Split(line, ",", -1))])
    ELSE IF KindRejected(sec, type_name) THEN Err("UnrecognizedLineKind")
    ELSE Bind(LineParse(LineParser(sec, type_name), type_name, line, sec.field_order),
              LAMBDA rec : Ok([sec EXCEPT !.lines = Append(sec.lines, rec)]))

\* FieldSection.add_line
FieldSectionAddLine(sec, field_name, field) ==
    Bind(IF ODHas(ScriptInfoFields, field_name)
         THEN FieldParse(ODGet(ScriptInfoFields, field_name), field)
         ELSE Ok(StrV(field)),
         LAMBDA v : Ok([sec EXCEPT !.fields = ODSet(sec.fields, field_name, v)]))

\* section.add_line
AddLine(sec, type_name, line) ==
    IF IsFieldSection(sec.cls)
    THEN FieldSectionAddLine(sec, type_name, line)
    ELSE LineSectionAddLine(sec, type_name, line)

\* The record lines of LineSection.dump, stopping at the first that raises
RECURSIVE DumpRecords(_, _)
DumpRecords(lines, field_order) ==
    IF lines = <<>> THEN Ok(<<>>)
    ELSE Bind(LineDumpWithType(lines[1], field_order),
              LAMBDA first : Bind(DumpRecords(Tail(lines), field_order),
                                  LAMBDA rest : Ok(<<first>> \o rest)))

\* The header line of a section's dump
HeaderLine(sec) == <<"[">> \o sec.section \o <<"]">>

\* The Format line of LineSection.dump, if the section has a field order
FormatLine(field_order) ==
    IF field_order # None
    THEN << FORMAT_TYPE \o <<":", " ">> \o Join(field_order, <<",", " ">>) >>
    ELSE <<>>

\* LineSection.dump
LineSectionDump(sec) ==
    Bind(DumpRecords(sec.lines, sec.field_order),
         LAMBDA records : Ok(<<HeaderLine(sec)>> \o FormatLine(sec.field_order) \o records))

\* FieldSection.dump
FieldSectionDump(sec) ==
    Ok(<<HeaderLine(sec)>> \o
       [i \in 1..Len(sec.fields) |-> sec.fields[i][1] \o <<":", " ">> \o FieldDump(sec.fields[i][2])])

\* section.dump, as the list its generator yields
SectionDump(sec) ==
    IF IsFieldSection(sec.cls) THEN FieldSectionDump(sec) ELSE LineSectionDump(sec)

-----------------------------------------------------------------------------
(* Document.  The state of parse_file: the section objects made so far     *)
(* (secs, an object being its index), doc.sections and seen_sections as    *)
(* maps from header to object, and the current section (0 for None).       *)

\* CaseInsensitiveOrderedDict.__init__ from <<key, value>> pairs without
\* case-insensitive duplicates
CIInit(pairs) ==
    [dict |-> pairs,
     case_mapping |-> [l \in { Lower(pairs[i][1]) : i \in 1..Len(pairs) } |->
                          pairs[CHOOSE i \in 1..Len(pairs) : Lower(pairs[i][1]) = l][1]]]

\* Document.SECTIONS
SECTIONS ==
    CIInit(<< <<SCRIPT_INFO_HEADER, "ScriptInfoSection">>, <<STYLE_SSA_HEADER, "StylesSection">>,
              <<STYLE_ASS_HEADER, "StylesSection">>, <<EVENTS_HEADER, "EventsSection">> >>)

DefaultHeaders == <<SCRIPT_INFO_HEADER, STYLE_ASS_HEADER, EVENTS_HEADER>>

\* Document.__init__ followed by the first lines of parse_file
NewParse ==
    [secs |-> [i \in 1..3 |-> NewSection(CIGetItem(SECTIONS, DefaultHeaders[i]), DefaultHeaders[i])],
     sections |-> CIInit([i \in 1..3 |-> <<DefaultHeaders[i], i>>]),
     seen |-> CIEmpty,
     section |-> 0,
     err |-> NoError]

IsSkipped(line) == IF Strip(line) = <<>> THEN TRUE ELSE Strip(line)[1] = ";"

IsHeader(line) ==
    LET l == Strip(line)
    IN  ~IsSkipped(line) /\ l[1] = "[" /\ l[Len(l)] = "]"

HasColon(line) == \E i \in 1..Len(line) : line[i] = ":"

\* parse_file, the branch of a [Name] line, from the name on
ParseHeaderNamed(st, section_name) ==
    IF CIContains(st.sections, section_name)
    THEN [st EXCEPT !.section = CIGetItem(st.sections, section_name),
                    !.seen = CISetItem(st.seen, section_name,
                                       CIGetItem(st.sections, section_name))]
    ELSE [st EXCEPT !.secs = Append(st.secs,
                                   NewSection(CIGetOr(SECTIONS, section_name, "LineSection"),
                                              section_name)),
                    !.section = Len(st.secs) + 1,
                    !.seen = CISetItem(st.seen, section_name, Len(st.secs) + 1)]

\* section_name = line[1:-1]
HeaderName(l) == SubSeq(l, 2, Len(l) - 1)

\* parse_file, the branch of a [Name] line
ParseHeader(st, line) == ParseHeaderNamed(st, HeaderName(Strip(line)))

\* parse_file, the kind and the text of a content line
ContentKind(line) == Partition(Strip(line), ":")[1]
ContentRest(line) == LStrip(Partition(Strip(line), ":")[3])

\* What parse_file does with the outcome of add_line
StoreSection(st, r) ==
    IF ~r.ok THEN [st EXCEPT !.err = r.err]
    ELSE [st EXCEPT !.secs[st.section] = r.v]

\* parse_file, the branch that hands a line to the current section
ParseContent(st, line) ==
    StoreSection(st, AddLine(st.secs[st.section], ContentKind(line), ContentRest(line)))

\* parse_file, one turn of the loop.  (No text of this model starts with a
\* byte-order mark, so the check of the first line never raises.)
ParseStep(st, line) ==
    IF IsSkipped(line) THEN st
    ELSE IF IsHeader(line) THEN ParseHeader(st, line)
    ELSE IF st.section = 0 THEN [st EXCEPT !.err = "ContentOutsideSection"]
    ELSE IF ~HasColon(Strip(line)) THEN st
    ELSE ParseContent(st, line)

\* The loop that appends the default sections no header named
RECURSIVE AppendUnseen(_, _, _)
AppendUnseen(sections, seen, i) ==
    IF i > Len(sections.dict) THEN seen
    ELSE LET name == sections.dict[i][1]
         IN  AppendUnseen(sections,
                          IF ~CIContains(seen, name)
                          THEN CISetItem(seen, name, sections.dict[i][2])
                          ELSE seen,
                          i + 1)

\* A parse_file that returns the encountered sections only.
ParseFinishSeenOnly(st) == [st EXCEPT !.sections = st.seen]

SetSections(st, seen) == [st EXCEPT !.sections = seen, !.seen = seen]

\* parse_file after the loop: the unseen default sections are appended and
\* doc.sections = seen_sections
ParseFinish(st) == SetSections(st, AppendUnseen(st.sections, st.seen, 1))

\* Document.parse_file over a whole sequence of lines
RECURSIVE ParseLoop(_, _)
ParseLoop(st, lines) ==
    IF lines = <<>> \/ st.err # NoError THEN st
    ELSE ParseLoop(ParseStep(st, lines[1]), Tail(lines))

FinishUnlessFailed(st) == IF st.err # NoError THEN st ELSE ParseFinish(st)

ParseFile(lines) == FinishUnlessFailed(ParseLoop(NewParse, lines))

\* Document.dump_file: the lines written, each section followed by an empty
\* line, and the error that stopped it
WriteSection(written, sec, Continue(_)) ==
    IF ~sec.ok THEN [lines |-> written, err |-> sec.err]
    ELSE Continue(written \o sec.v \o << <<>> >>)

RECURSIVE DumpSections(_, _, _)
DumpSections(st, i, written) ==
    IF i > Len(st.sections.dict) THEN [lines |-> written, err |-> NoError]
    ELSE WriteSection(written, SectionDump(st.secs[CIValues(st.sections)[i]]),
                      LAMBDA w : DumpSections(st, i + 1, w))

DumpFile(st) == DumpSections(st, 1, <<>>)

-----------------------------------------------------------------------------
(* The map driven by arbitrary set, delete and get calls *)

MaxMapOps == 3

MapKeys == { <<"A","b">>, <<"a","B">>, <<"a","b">>, <<"C">>, <<"c">> }
MapValues == 1..2

MapIdle == /\ cimap = Idle /\ mapHist = Idle /\ mapRet = Idle
TimeIdle == /\ td = Idle /\ tdText = Idle /\ tdBack = Idle /\ tdPc = Idle
LineIdle == /\ lnOrder = Idle /\ lnText = Idle /\ lnRes = Idle /\ lnPc = Idle
ScanIdle == /\ scText = Idle /\ scRes = Idle /\ scPc = Idle
StripIdle == /\ stParts = Idle /\ stKeep = Idle /\ stRes = Idle /\ stPc = Idle
DocIdle ==
    /\ ps = Idle /\ input = Idle /\ pc = Idle /\ curHeader = Idle
    /\ accepted = Idle /\ lastCall = Idle /\ out = Idle /\ back = Idle

InitMap ==
    /\ cimap = CIEmpty
    /\ mapHist = <<>>
    /\ mapRet = None
    /\ TimeIdle /\ LineIdle /\ ScanIdle /\ StripIdle /\ DocIdle

MapSet(k, v) ==
    /\ Len(mapHist) < MaxMapOps
    /\ cimap' = CISetItem(cimap, k, v)
    /\ mapHist' = Append(mapHist, <<"set", k, v>>)
    /\ mapRet' = None
    /\ UNCHANGED <<timeVars, lineVars, scanVars, stripVars, docVars>>

MapDel(k) ==
    /\ Len(mapHist) < MaxMapOps
    /\ IF CIHas(cimap, k)
       THEN /\ cimap' = CIDelItem(cimap, k)
            /\ mapRet' = None
       ELSE /\ cimap' = cimap
            /\ mapRet' = "KeyError"
    /\ mapHist' = Append(mapHist, <<"del", k, 0>>)
    /\ UNCHANGED <<timeVars, lineVars, scanVars, stripVars, docVars>>

MapGet(k) ==
    /\ mapRet' = IF CIHas(cimap, k) THEN CIGetItem(cimap, k) ELSE "KeyError"
    /\ UNCHANGED <<cimap, mapHist>>
    /\ UNCHANGED <<timeVars, lineVars, scanVars, stripVars, docVars>>

NextMap ==
    \/ \E k \in MapKeys, v \in MapValues : MapSet(k, v)
    \/ \E k \in MapKeys : MapDel(k)
    \/ \E k \in MapKeys : MapGet(k)

SpecMap == InitMap /\ [][NextMap]_vars

\* What the calls of a history leave: the keys in iteration order, each under
\* the casing it was inserted with since it was last absent.
RECURSIVE RefKeys(_)
RefKeys(h) ==
    IF h = <<>> THEN <<>>
    ELSE LET prev == RefKeys(SubSeq(h, 1, Len(h) - 1))
             op == h[Len(h)]
             same(k) == Lower(k) = Lower(op[2])
         IN  IF op[1] = "set"
             THEN IF \E i \in 1..Len(prev) : same(prev[i]) THEN prev ELSE Append(prev, op[2])
             ELSE SelectSeq(prev, LAMBDA k : ~same(k))

\* C3: after any sequence of set and delete calls the map holds one entry per
\* lowercased key, the lowercase index names exactly the stored keys, a value
\* set under one casing is read back under every casing, and iteration reports
\* each key under its first-inserted casing at its first-inserted position.
C3_CaseInsensitiveMap ==
    mapHist # Idle =>
        LET keys == CIKeys(cimap)
            last == mapHist[Len(mapHist)]
        IN  /\ \A i, j \in 1..Len(keys) : Lower(keys[i]) = Lower(keys[j]) => i = j
            /\ { cimap.case_mapping[l] : l \in DOMAIN cimap.case_mapping }
                   = { keys[i] : i \in 1..Len(keys) }
            /\ \A l \in DOMAIN cimap.case_mapping : Lower(cimap.case_mapping[l]) = l
            /\ Cardinality(DOMAIN cimap.case_mapping) = Len(keys)
            /\ (mapHist # <<>> /\ last[1] = "set") =>
                   \A k2 \in MapKeys :
                       Lower(k2) = Lower(last[2]) =>
                           CIHas(cimap, k2) /\ CIGetItem(cimap, k2) = last[3]
            /\ keys = RefKeys(mapHist)

\* A key re-inserted under another casing after a delete, next to a key that
\* was set twice under two casings.
C3_Witness ==
    /\ mapHist # Idle
    /\ Len(mapHist) = 3
    /\ mapHist[1][1] = "set" /\ mapHist[2][1] = "set" /\ mapHist[3][1] = "set"
    /\ mapHist[1][2] = <<"A","b">> /\ mapHist[2][2] = <<"C">> /\ mapHist[3][2] = <<"a","B">>
    /\ CIKeys(cimap) = << <<"A","b">>, <<"C">> >>
    /\ CIGetItem(cimap, <<"a","b">>) = mapHist[3][3]

-----------------------------------------------------------------------------
(* The duration codec applied to a span and to the text it wrote *)

MaxHours == 1

TimeMinutes == {0, 2, 59}
TimeSeconds == {0, 3, 59}
TimeCentis == {0, 1, 45, 50, 99}

TimeSpans ==
    { sg * ((h * 3600 + m * 60 + sc) * 100 + c) :
        sg \in {-1, 1}, h \in 0..MaxHours, m \in TimeMinutes, sc \in TimeSeconds, c \in TimeCentis }

InitTime ==
    /\ td \in TimeSpans
    /\ tdText = None
    /\ tdBack = None
    /\ tdPc = "start"
    /\ MapIdle /\ LineIdle /\ ScanIdle /\ StripIdle /\ DocIdle

TimeDump ==
    /\ tdPc = "start"
    /\ tdText' = timedelta_to_ass(td)
    /\ tdPc' = "dumped"
    /\ UNCHANGED <<td, tdBack>>
    /\ UNCHANGED <<mapVars, lineVars, scanVars, stripVars, docVars>>

TimeParse ==
    /\ tdPc = "dumped"
    /\ tdBack' = timedelta_from_ass(tdText)
    /\ tdPc' = "parsed"
    /\ UNCHANGED <<td, tdText>>
    /\ UNCHANGED <<mapVars, lineVars, scanVars, stripVars, docVars>>

NextTime == TimeDump \/ TimeParse

SpecTime == InitTime /\ [][NextTime]_vars

\* The text form H:MM:SS.CC: an optional sign and the hour digits, then two
\* digits of minutes and of seconds in 00..59 and two digits of centiseconds.
IsCanonicalDuration(t) ==
    LET p == Partition(t, ".")
        parts == Split(p[1], ":", -1)
        twoDigits(x) == Len(x) = 2 /\ IsDigit(x[1]) /\ IsDigit(x[2])
        hourDigits == IF parts[1] # <<>> /\ parts[1][1] = "-" THEN Tail(parts[1]) ELSE parts[1]
    IN  /\ p[2] = <<".">>
        /\ Len(parts) = 3
        /\ hourDigits # <<>> /\ \A i \in 1..Len(hourDigits) : IsDigit(hourDigits[i])
        /\ twoDigits(parts[2]) /\ DigitsVal(parts[2]) <= 59
        /\ twoDigits(parts[3]) /\ DigitsVal(parts[3]) <= 59
        /\ twoDigits(p[3])

\* C7: for every signed span d of whole centiseconds, timedelta_to_ass(d) has
\* the form H:MM:SS.CC and timedelta_from_ass reads d back from it.
C7_DurationRoundTrip ==
    tdPc = "parsed" =>
        /\ IsCanonicalDuration(tdText)
        /\ tdBack = Ok(td)

-----------------------------------------------------------------------------
(* _Line.parse applied to a text and a field order *)

MaxArity == 3
MaxTextLen == 4

LineNames == << <<"x">>, <<"y">>, <<"z">>, <<"w">>, <<"v">> >>
LineChars == {"a", ",", " "}

LineTexts == UNION { [1..n -> LineChars] : n \in 0..MaxTextLen }

LineKind == <<"K">>

InitLine ==
    /\ lnOrder \in { SubSeq(LineNames, 1, n) : n \in 1..MaxArity }
    /\ lnText \in LineTexts
    /\ lnRes = None
    /\ lnPc = "start"
    /\ MapIdle /\ TimeIdle /\ ScanIdle /\ StripIdle /\ DocIdle

LineParseCall ==
    /\ lnPc = "start"
    /\ lnRes' = LineParse("Unknown", LineKind, lnText, lnOrder)
    /\ lnPc' = "parsed"
    /\ UNCHANGED <<lnOrder, lnText>>
    /\ UNCHANGED <<mapVars, timeVars, scanVars, stripVars, docVars>>

LineDumpCall ==
    /\ lnPc = "parsed"
    /\ lnRes.ok
    /\ lnRes' = LineDump(lnRes.v, lnOrder)
    /\ lnPc' = "dumped"
    /\ UNCHANGED <<lnOrder, lnText>>
    /\ UNCHANGED <<mapVars, timeVars, scanVars, stripVars, docVars>>

NextLine == LineParseCall \/ LineDumpCall

SpecLine == InitLine /\ [][NextLine]_vars

CountChar(s, c) == Cardinality({ i \in 1..Len(s) : s[i] = c })

\* The text between the (i-1)-th and the i-th comma of s (i = 1: from the start)
Chunk(s, i) ==
    LET commas == { k \in 1..Len(s) : s[k] = "," }
        pos(j) == IF j = 0 THEN 0
                  ELSE CHOOSE k \in commas : Cardinality({ m \in commas : m <= k }) = j
    IN  SubSeq(s, pos(i - 1) + 1, pos(i) - 1)

\* The text after the n-th comma of s
AfterComma(s, n) ==
    LET commas == { k \in 1..Len(s) : s[k] = "," }
        pos == IF n = 0 THEN 0
               ELSE CHOOSE k \in commas : Cardinality({ m \in commas : m <= k }) = n
    IN  SubSeq(s, pos + 1, Len(s))

\* C4: against N >= 1 names, _Line.parse fails with the arity error exactly
\* when the text has fewer than N-1 commas; otherwise field i < N holds the
\* text between the commas i-1 and i, and the last field holds everything
\* after comma N-1, commas included.
C4_Arity ==
    lnPc = "parsed" =>
        LET N == Len(lnOrder)
        IN  /\ (~lnRes.ok) <=> CountChar(lnText, ",") < N - 1
            /\ ~lnRes.ok => lnRes.err = "ArityMismatch"
            /\ lnRes.ok =>
                   /\ \A i \in 1..(N - 1) :
                          ODGet(lnRes.v.fields, lnOrder[i]) = StrV(Chunk(lnText, i))
                   /\ ODGet(lnRes.v.fields, lnOrder[N]) = StrV(AfterComma(lnText, N - 1))

\* Three names and a text of three commas: the last field keeps a comma.
C4_Witness ==
    /\ lnPc = "parsed"
    /\ Len(lnOrder) = 3
    /\ CountChar(lnText, ",") = 3
    /\ lnRes.ok
    /\ CountChar(ODGet(lnRes.v.fields, lnOrder[3]).s, ",") = 1

-----------------------------------------------------------------------------
(* Dialogue.parse_parts applied to a text *)

MaxScanLen == 4

ScanChars == {"a", "{", "}", "\\"}
ScanTexts == UNION { [1..n -> ScanChars] : n \in 0..MaxScanLen }

InitScan ==
    /\ scText \in ScanTexts
    /\ scRes = None
    /\ scPc = "start"
    /\ MapIdle /\ TimeIdle /\ LineIdle /\ StripIdle /\ DocIdle

ScanCall ==
    /\ scPc = "start"
    /\ scRes' = ParseParts(scText)
    /\ scPc' = "done"
    /\ UNCHANGED scText
    /\ UNCHANGED <<mapVars, timeVars, lineVars, stripVars, docVars>>

NextScan == ScanCall

SpecScan == InitScan /\ [][NextScan]_vars

\* The segments the scan is to return: <<is a tag, text>> pairs, the text of
\* a tag being the inside of its block.
RECURSIVE RefScan(_, _)
RefScan(text, current) ==
    LET flush == IF current # <<>> THEN << <<FALSE, current>> >> ELSE <<>>
    IN  IF text = <<>> THEN flush
        ELSE IF text[1] = "\\"
        THEN IF Len(text) = 1 THEN << <<FALSE, Append(current, "\\")>> >>
             ELSE RefScan(SubSeq(text, 3, Len(text)),
                          IF text[2] = "{" THEN Append(current, "{")
                          ELSE current \o <<"\\", text[2]>>)
        ELSE IF text[1] = "{"
        THEN LET j == TagEnd(text, 1)
             IN  flush \o << <<TRUE, SubSeq(text, 2, j - 1)>> >>
                       \o RefScan(SubSeq(text, j + 1, Len(text)), <<>>)
        ELSE RefScan(Tail(text), Append(current, text[1]))

\* C6: parse_parts returns, in input order, the non-empty plain runs and one
\* tag segment per {...} block; an escaped { stays in the plain run and a
\* trailing backslash is kept as a backslash.
C6_TagScan ==
    scPc = "done" =>
        LET ref == RefScan(scText, <<>>)
        IN  /\ scRes.ok
            /\ Len(scRes.v) = Len(ref)
            /\ \A i \in 1..Len(ref) :
                   /\ (scRes.v[i].kind = "Tag") = ref[i][1]
                   /\ ~ref[i][1] => scRes.v[i].s = ref[i][2]

-----------------------------------------------------------------------------
(* Tag.strip_tags applied to a sequence of segments *)

MaxParts == 3

StripPool ==
    { PlainPart(<<"a">>), PlainPart(<<"b">>),
      TagInit(<<"p">>, <<1>>), TagInit(<<"p">>, <<0>>), TagInit(<<"b">>, <<1>>) }

InitStrip ==
    /\ stParts \in UNION { [1..n -> StripPool] : n \in 0..MaxParts }
    /\ stKeep \in BOOLEAN
    /\ stRes = None
    /\ stPc = "start"
    /\ MapIdle /\ TimeIdle /\ LineIdle /\ ScanIdle /\ DocIdle

StripCall ==
    /\ stPc = "start"
    /\ stRes' = StripTags(stParts, stKeep)
    /\ stPc' = "done"
    /\ UNCHANGED <<stParts, stKeep>>
    /\ UNCHANGED <<mapVars, timeVars, lineVars, scanVars, docVars>>

NextStrip == StripCall

SpecStrip == InitStrip /\ [][NextStrip]_vars

IsMarker(part, param) ==
    part.kind = "Tag" /\ part.attrs.name = <<"p">> /\ part.attrs.param = <<param>>

\* The text to keep: with suppression, the plain segments that lie in no
\* span from a \p1 tag to the next \p0 tag; without it, all plain segments.
RECURSIVE RefStrip(_, _, _)
RefStrip(parts, keep, drawing) ==
    IF parts = <<>> THEN <<>>
    ELSE LET part == parts[1]
         IN  IF drawing
             THEN RefStrip(Tail(parts), keep, ~IsMarker(part, 0))
             ELSE IF part.kind = "Tag"
             THEN RefStrip(Tail(parts), keep, ~keep /\ IsMarker(part, 1))
             ELSE part.s \o RefStrip(Tail(parts), keep, FALSE)

\* C10: strip_tags completes for every segment sequence and returns the
\* plain text outside the drawing spans (all plain text when drawing
\* commands are kept).
C10_DrawingSuppression ==
    stPc = "done" =>
        /\ stRes.ok
        /\ stRes.v = RefStrip(stParts, stKeep, FALSE)

-----------------------------------------------------------------------------
(* Document.parse_file reading lines one by one, then dump_file, then      *)
(* parse_file of what dump_file wrote                                      *)

MaxLines == 3

DocLines ==
    { <<"[","E","v","e","n","t","s","]">>, <<"[","e","v","e","n","t","s","]">>, <<"[","F","o","o","]">>, <<"[","f","o","o","]">>, <<"[","S","c","r","i","p","t"," ","I","n","f","o","]">>, <<"[","V","4","+"," ","S","t","y","l","e","s","]">>,
      <<"F","o","r","m","a","t",":"," ","T","e","x","t">>, <<"F","o","r","m","a","t",":"," ","n","a","m","e">>, <<"F","o","r","m","a","t",":"," ","T","e","x","t",","," ","F","o","o">>,
      <<"D","i","a","l","o","g","u","e",":"," ","h","i",",","a">>, <<"T","i","t","l","e",":"," ","x">>, <<"j","u","n","k">>, <<>> }

Init ==
    /\ ps = NewParse
    /\ input = <<>>
    /\ pc = "parsing"
    /\ curHeader = None
    /\ accepted = <<>>
    /\ lastCall = [called |-> FALSE]
    /\ out = None
    /\ back = None
    /\ MapIdle /\ TimeIdle /\ LineIdle /\ ScanIdle /\ StripIdle

CanRead == pc = "parsing" /\ Len(input) < MaxLines

Read(line) ==
    /\ ps' = ParseStep(ps, line)
    /\ input' = Append(input, line)
    /\ pc' = IF ps'.err # NoError THEN "failed" ELSE "parsing"
    /\ UNCHANGED <<out, back>>
    /\ UNCHANGED <<mapVars, timeVars, lineVars, scanVars, stripVars>>

\* A blank line or a comment
ReadSkipped(line) ==
    /\ CanRead
    /\ IsSkipped(line)
    /\ Read(line)
    /\ UNCHANGED <<curHeader, accepted, lastCall>>

\* A [Name] line
ReadHeader(line) ==
    /\ CanRead
    /\ IsHeader(line)
    /\ Read(line)
    /\ curHeader' = Lower(SubSeq(Strip(line), 2, Len(Strip(line)) - 1))
    /\ UNCHANGED <<accepted, lastCall>>

\* A content line before any header
ReadOutsideSection(line) ==
    /\ CanRead
    /\ ~IsSkipped(line) /\ ~IsHeader(line)
    /\ ps.section = 0
    /\ Read(line)
    /\ UNCHANGED <<curHeader, accepted, lastCall>>

\* A line without a colon, inside a section
ReadIllformed(line) ==
    /\ CanRead
    /\ ~IsSkipped(line) /\ ~IsHeader(line)
    /\ ps.section # 0
    /\ ~HasColon(Strip(line))
    /\ Read(line)
    /\ UNCHANGED <<curHeader, accepted, lastCall>>

\* A content line, handed to the current section
ReadContent(line) ==
    /\ CanRead
    /\ ~IsSkipped(line) /\ ~IsHeader(line)
    /\ ps.section # 0
    /\ HasColon(Strip(line))
    /\ Read(line)
    /\ LET before == ps.secs[ps.section]
           isRecord == ~IsFieldSection(before.cls)
                         /\ Lower(ContentKind(line)) # Lower(FORMAT_TYPE)
       IN  /\ lastCall' = IF IsFieldSection(before.cls) THEN lastCall
                          ELSE [called |-> TRUE,
                                kind |-> ContentKind(line), rest |-> ContentRest(line),
                                before |-> before, after |-> ps'.secs[ps.section],
                                err |-> ps'.err]
           /\ accepted' = IF isRecord /\ ps'.err = NoError
                          THEN Append(accepted,
                                      <<curHeader,
                                        ps'.secs[ps.section].lines[Len(before.lines) + 1]>>)
                          ELSE accepted
    /\ UNCHANGED curHeader

\* The end of the input
Finish ==
    /\ pc = "parsing"
    /\ ps' = ParseFinish(ps)
    /\ pc' = "done"
    /\ UNCHANGED <<input, curHeader, accepted, lastCall, out, back>>
    /\ UNCHANGED <<mapVars, timeVars, lineVars, scanVars, stripVars>>

Dump ==
    /\ pc = "done"
    /\ out' = DumpFile(ps)
    /\ pc' = "dumped"
    /\ UNCHANGED <<ps, input, curHeader, accepted, lastCall, back>>
    /\ UNCHANGED <<mapVars, timeVars, lineVars, scanVars, stripVars>>

Reparse ==
    /\ pc = "dumped"
    /\ out.err = NoError
    /\ back' = ParseFile(out.lines)
    /\ pc' = "reparsed"
    /\ UNCHANGED <<ps, input, curHeader, accepted, lastCall, out>>
    /\ UNCHANGED <<mapVars, timeVars, lineVars, scanVars, stripVars>>

Next ==
    \/ \E line \in DocLines : ReadSkipped(line)
    \/ \E line \in DocLines : ReadHeader(line)
    \/ \E line \in DocLines : ReadOutsideSection(line)
    \/ \E line \in DocLines : ReadIllformed(line)
    \/ \E line \in DocLines : ReadContent(line)
    \/ Finish
    \/ Dump
    \/ Reparse

Spec == Init /\ [][Next]_vars

-----------------------------------------------------------------------------
(* Properties of Document.parse_file and Document.dump_file                *)

LowerAll(names) == [i \in 1..Len(names) |-> Lower(names[i])]

RECURSIVE Dedup(_, _)
Dedup(s, acc) ==
    IF s = <<>> THEN acc
    ELSE Dedup(Tail(s),
               IF \E i \in 1..Len(acc) : acc[i] = s[1] THEN acc ELSE Append(acc, s[1]))

IsHeaderText(l) == l # <<>> /\ l[1] = "[" /\ l[Len(l)] = "]"

\* The lowercased names of the [Name] lines of a text, in order
HeadersOf(lines) ==
    LET hs == SelectSeq(lines, LAMBDA l : IsHeaderText(Strip(l)))
    IN  [i \in 1..Len(hs) |-> Lower(SubSeq(Strip(hs[i]), 2, Len(Strip(hs[i])) - 1))]

Occurs(seq, x) == \E i \in 1..Len(seq) : seq[i] = x

\* The section order the input calls for: first occurrences, then the
\* default sections no header named
ExpectedOrder ==
    Dedup(HeadersOf(input), <<>>)
    \o SelectSeq(LowerAll(DefaultHeaders), LAMBDA h : ~Occurs(HeadersOf(input), h))

IsPrefix(s, t) == Len(s) <= Len(t) /\ s = SubSeq(t, 1, Len(s))

Parsed == pc \in {"done", "dumped", "reparsed"}

OrderKept(expected) ==
    /\ Parsed =>
          /\ LowerAll(CIKeys(ps.sections)) = expected
          /\ \A i \in 1..3 : CIContains(ps.sections, DefaultHeaders[i])
          /\ \A i \in 1..3 : Occurs(expected, Lower(DefaultHeaders[i]))
    /\ pc \in {"dumped", "reparsed"} =>
          /\ IsPrefix(HeadersOf(out.lines), expected)
          /\ out.err = NoError => HeadersOf(out.lines) = expected

RecognizedKinds(cls) ==
    CASE cls = "EventsSection" ->
            {<<"d","i","a","l","o","g","u","e">>, <<"c","o","m","m","e","n","t">>, <<"p","i","c","t","u","r","e">>, <<"s","o","u","n","d">>, <<"m","o","v","i","e">>, <<"c","o","m","m","a","n","d">>}
      [] cls = "StylesSection" -> {<<"s","t","y","l","e">>}
      [] OTHER -> {}

IsStrict(cls) == cls \in {"EventsSection", "StylesSection"}

IsRecordCall == lastCall.called /\ Lower(lastCall.kind) # Lower(FORMAT_TYPE)

\* The call appended exactly one opaque record of kind K that dumps as K: rest
AppendedOpaque ==
    /\ lastCall.err = NoError
    /\ Len(lastCall.after.lines) = Len(lastCall.before.lines) + 1
    /\ SubSeq(lastCall.after.lines, 1, Len(lastCall.before.lines)) = lastCall.before.lines
    /\ LET rec == lastCall.after.lines[Len(lastCall.after.lines)]
       IN  /\ rec.cls = "Unknown"
           /\ rec.TYPE = lastCall.kind
           /\ LineDumpWithType(rec, lastCall.after.field_order)
                = Ok(lastCall.kind \o <<":", " ">> \o lastCall.rest)

\* C5: add_line rejects a non-Format line of kind K exactly when the section
\* has a table of recognized kinds and the lowercased K is not in it; in a
\* generic section that has received no Format line every kind is accepted and
\* appends exactly one opaque record whose type tag is K and which dumps as
\* "K: rest".
C5_UnknownKindRouting ==
    IsRecordCall =>
        /\ lastCall.err = "UnrecognizedLineKind"
              <=> (IsStrict(lastCall.before.cls)
                     /\ Lower(lastCall.kind) \notin RecognizedKinds(lastCall.before.cls))
        /\ (~IsStrict(lastCall.before.cls) /\ lastCall.before.field_order = None)
              => AppendedOpaque

\* A generic section without a Format line took a record line
C5_Witness ==
    /\ IsRecordCall
    /\ ~IsStrict(lastCall.before.cls)
    /\ lastCall.before.field_order = None
    /\ lastCall.err = NoError
    /\ lastCall.before.lines # <<>>

\* C5 as stated: the same, for every generic section.
C5_Original ==
    IsRecordCall =>
        /\ lastCall.err = "UnrecognizedLineKind"
              <=> (IsStrict(lastCall.before.cls)
                     /\ Lower(lastCall.kind) \notin RecognizedKinds(lastCall.before.cls))
        /\ ~IsStrict(lastCall.before.cls) => AppendedOpaque

\* The records accepted under the header h, in input order
AcceptedUnder(h) ==
    LET sel == SelectSeq(accepted, LAMBDA a : a[1] = h)
    IN  [i \in 1..Len(sel) |-> sel[i][2]]

\* C8: every record accepted under any occurrence of a header is in the final
\* document's section of that name, in input order, and none is lost.
C8_HeaderReuse ==
    pc = "done" =>
        \A i \in 1..Len(accepted) :
            /\ CIContains(ps.sections, accepted[i][1])
            /\ ps.secs[CIGetItem(ps.sections, accepted[i][1])].lines
                 = AcceptedUnder(accepted[i][1])

\* The names a record section dumps its records by
DumpOrder(sec, rec) ==
    IF sec.field_order = None THEN DefaultFieldOrder(rec.cls) ELSE sec.field_order

\* C9: on a parsed document dump_file completes without error: every record
\* of every record section holds a value under every name of the section's
\* current field order.
C9_DumpNeverFails ==
    /\ pc = "done" =>
          \A i \in 1..Len(ps.sections.dict) :
              LET sec == ps.secs[CIValues(ps.sections)[i]]
              IN  ~IsFieldSection(sec.cls) =>
                      \A j \in 1..Len(sec.lines) :
                          \A k \in 1..Len(DumpOrder(sec, sec.lines[j])) :
                              ODHas(sec.lines[j].fields, DumpOrder(sec, sec.lines[j])[k])
    /\ pc = "dumped" => out.err = NoError

FieldPairs(fields) == {fields[i] : i \in 1..Len(fields)}

SameRecords(a, b) ==
    /\ Len(a) = Len(b)
    /\ \A i \in 1..Len(a) :
           /\ a[i].TYPE = b[i].TYPE
           /\ FieldPairs(a[i].fields) = FieldPairs(b[i].fields)

\* The two documents have the same section order, the same record order in
\* every section and the same value for every field
SameDocument(a, b) ==
    /\ LowerAll(CIKeys(a.sections)) = LowerAll(CIKeys(b.sections))
    /\ \A i \in 1..Len(a.sections.dict) :
           LET sa == a.secs[CIValues(a.sections)[i]]
               sb == b.secs[CIValues(b.sections)[i]]
           IN  /\ SameRecords(sa.lines, sb.lines)
               /\ FieldPairs(sa.fields) = FieldPairs(sb.fields)

\* C1: for every parsed document, parsing the lines dump_file writes succeeds
\* and gives a document with the same section order, record order and field
\* values, and dumping that document writes the same lines again.
C1_RoundTrip ==
    /\ pc = "dumped" => out.err = NoError
    /\ pc = "reparsed" =>
          /\ back.err = NoError
          /\ SameDocument(ps, back)
          /\ DumpFile(back) = out

\* A non-blank, non-comment, non-header line without a colon
IsColonless(line) ==
    /\ Strip(line) # <<>>
    /\ Strip(line)[1] # ";"
    /\ ~IsHeaderText(Strip(line))
    /\ \A i \in 1..Len(line) : line[i] # ":"

\* C11: a non-blank, non-comment, non-header line without a colon never makes
\* parse_file fail and leaves the document and the current section as they
\* were, at every position in the input, before the first header included.
C11_ColonlessTolerated ==
    [][(pc = "parsing" /\ input' # input /\ IsColonless(input'[Len(input')]))
          => (pc' = "parsing" /\ ps' = ps)]_vars

====
